---- MODULE Spec2Model ----
(***************************************************************************)
(* A model of the semantics layer of pocketlang (src/src/core.c): the      *)
(* subscript protocol, the iteration protocol, the operators and the core  *)
(* builtin functions, as state machines over a small heap, a fiber (error  *)
(* channel, argument window, return slot) and the record of the last call. *)
(***************************************************************************)
EXTENDS Integers, Sequences, FiniteSets, TLC

VARIABLES
  heap,    \* the objects the calls work on: reference -> object
  error,   \* vm->fiber->error, NoError while it is NULL
  call,    \* the last call made into core.c and what it did
  iterA,   \* a running iteration: the sequence, its iterator Var, what it yielded
  iterB,   \* a second, independent iteration
  halted   \* TRUE once the process was stopped (assertion, abort, crash)

vars == <<heap, error, call, iterA, iterB, halted>>

(***************************************************************************)
(* Bounds of the model.                                                    *)
(***************************************************************************)
MaxLen == 2      \* longest List / String the initial states hold
MapCap == 3      \* capacity (slots) of the initial Maps
MaxYield == 5    \* iterate calls followed per iteration with a next value
MaxArgc == 3     \* largest argument window of a variadic call

(***************************************************************************)
(* Doubles.  A double is a rational n/d in lowest terms with d > 0, or one *)
(* of the IEEE specials with d = 0: 1/0 is +Inf, -1/0 is -Inf, 0/0 is NaN. *)
(* There is no negative zero.                                              *)
(***************************************************************************)
Abs(i) == IF i < 0 THEN -i ELSE i

Sign(i) == IF i < 0 THEN -1 ELSE IF i > 0 THEN 1 ELSE 0

RECURSIVE GCD(_, _)
GCD(a, b) == IF b = 0 THEN a ELSE GCD(b, a % b)

Dbl(n, d) ==
  IF d = 0 THEN [n |-> Sign(n), d |-> 0]
  ELSE LET g == GCD(Abs(n), Abs(d))
       IN  [n |-> Sign(d) * (n \div g), d |-> Abs(d) \div g]

DInt(i) == [n |-> i, d |-> 1]

NaN == [n |-> 0, d |-> 0]

PosInf == [n |-> 1, d |-> 0]

IsNaN(x) == x.d = 0 /\ x.n = 0

IsInf(x) == x.d = 0 /\ x.n # 0

\* C's == on doubles: NaN equals nothing.
dEq(x, y) == ~IsNaN(x) /\ ~IsNaN(y) /\ x = y

\* C's < on doubles.
dLess(x, y) ==
  /\ ~IsNaN(x)
  /\ ~IsNaN(y)
  /\ CASE x.d = 0 /\ y.d = 0 -> x.n < y.n
       [] x.d = 0 -> x.n < 0
       [] y.d = 0 -> y.n > 0
       [] OTHER -> x.n * y.d < y.n * x.d

dGreater(x, y) == dLess(y, x)

dLessEq(x, y) == dLess(x, y) \/ dEq(x, y)

dNeg(x) == [n |-> -x.n, d |-> x.d]

dAdd(x, y) ==
  CASE IsNaN(x) \/ IsNaN(y) -> NaN
    [] IsInf(x) /\ IsInf(y) -> IF x.n = y.n THEN x ELSE NaN
    [] IsInf(x) -> x
    [] IsInf(y) -> y
    [] OTHER -> Dbl(x.n * y.d + y.n * x.d, x.d * y.d)

dSub(x, y) == dAdd(x, dNeg(y))

dMul(x, y) == Dbl(x.n * y.n, x.d * y.d)

\* 1/y: 1/0 is +Inf, 1/Inf is 0, 1/NaN is NaN.
dRecip(y) ==
  CASE y.n > 0 -> [n |-> y.d, d |-> y.n]
    [] y.n < 0 -> [n |-> -y.d, d |-> -y.n]
    [] OTHER -> IF y.d = 0 THEN NaN ELSE PosInf

dDiv(x, y) == dMul(x, dRecip(y))

\* trunc(): toward zero; the specials are kept.
dTrunc(x) ==
  IF x.d = 0 THEN x
  ELSE IF x.n >= 0 THEN DInt(x.n \div x.d) ELSE DInt(-((-x.n) \div x.d))

\* fmod(): the sign follows the dividend.
dFmod(x, y) ==
  CASE IsNaN(x) \/ IsNaN(y) \/ IsInf(x) \/ (y.d # 0 /\ y.n = 0) -> NaN
    [] IsInf(y) -> x
    [] OTHER -> dSub(x, dMul(dTrunc(dDiv(x, y)), y))

INT32_MAX == 2147483647

INT32_MIN == -INT32_MAX - 1

\* (int32_t)x of a double already truncated.  Every finite double of the model
\* is in the range of int32_t; the conversion of an infinity is undefined, and
\* the results a build produces are the hardware's: the "integer indefinite"
\* INT32_MIN or the saturated INT32_MAX.
ToInt32(x) ==
  IF x.d # 0 THEN {x.n} ELSE {INT32_MIN, INT32_MAX}

(***************************************************************************)
(* Values (Var): Null | Bool | Number | Object reference, and the internal *)
(* Undefined that marks an empty Map slot.  A String is immutable and is   *)
(* held by content; every other object lives in the heap under a           *)
(* reference.                                                              *)
(***************************************************************************)
VAR_NULL == [t |-> "Null"]

VAR_UNDEF == [t |-> "Undef"]

VAR_BOOL(b) == [t |-> "Bool", b |-> b]

VAR_TRUE == VAR_BOOL(TRUE)

VAR_FALSE == VAR_BOOL(FALSE)

VAR_NUM(x) == [t |-> "Num", num |-> x]

\* A String object with the bytes [data].
newStringLength(data) == [t |-> "Obj", type |-> "OBJ_STRING", data |-> data]

\* A reference to the heap object [ref], whose kind is [type].
VAR_OBJ(type, ref) == [t |-> "Obj", type |-> type, ref |-> ref]

IS_NULL(v) == v.t = "Null"

IS_BOOL(v) == v.t = "Bool"

IS_NUM(v) == v.t = "Num"

IS_OBJ(v) == v.t = "Obj"

IS_UNDEF(v) == v.t = "Undef"

IsString(v) == IS_OBJ(v) /\ v.type = "OBJ_STRING"

IsList(v) == IS_OBJ(v) /\ v.type = "OBJ_LIST"

IsMap(v) == IS_OBJ(v) /\ v.type = "OBJ_MAP"

IsRange(v) == IS_OBJ(v) /\ v.type = "OBJ_RANGE"

\* A C string handed to stringFormat for a '$'.
CStr(s) == [c |-> s]

\* The String stringFormat builds: "@@" concatenates two Strings, any other
\* format is kept as the format and its arguments.
stringFormat(fmt, args) ==
  IF fmt = "@@"
  THEN newStringLength(args[1].data \o args[2].data)
  ELSE [t |-> "Obj", type |-> "OBJ_STRING", fmt |-> fmt, args |-> args]

\* newString(vm, "text")
newString(text) == stringFormat(text, <<>>)

\* The string form of a value (the repr form when [recursive]).
toString(v, recursive) ==
  stringFormat(IF recursive THEN "<repr>" ELSE "<str>", <<v>>)

\* Null and false are false, every other value is true.
toBool(v) ==
  CASE IS_NULL(v) -> FALSE
    [] IS_BOOL(v) -> v.b
    [] OTHER -> TRUE

\* Among the objects only Strings are hashable.
isObjectHashable(type) == type = "OBJ_STRING"

varTypeName(v) == IF IS_OBJ(v) THEN v.type ELSE v.t

\* vm->fiber->error == NULL
NoError == [t |-> "NULL"]

(***************************************************************************)
(* What a call into core.c did: how it ended ("return", or "abort" when an *)
(* assertion or TODO stopped the process, or "crash" when it read through   *)
(* a pointer that is no object), its result, the error it assigned to the  *)
(* error channel (NoError when it assigned none), the heap it left, and    *)
(* the effects it had, in order.                                           *)
(***************************************************************************)
Outcome(status, ret, err, h, log) ==
  [status |-> status, ret |-> ret, err |-> err, heap |-> h, log |-> log]

Return(ret, h) == Outcome("return", ret, NoError, h, <<>>)

Fail(ret, err, h) == Outcome("return", ret, err, h, <<"alloc", "error">>)

\* TODO: the not-yet-implemented assertion stops the process.
TODO(h) == Outcome("abort", VAR_NULL, NoError, h, <<"TODO">>)

(***************************************************************************)
(* Validators.                                                             *)
(***************************************************************************)
isNumeric(var) ==
  CASE IS_BOOL(var) -> [ok |-> TRUE, value |-> IF var.b THEN DInt(1) ELSE DInt(0)]
    [] IS_NUM(var) -> [ok |-> TRUE, value |-> var.num]
    [] OTHER -> [ok |-> FALSE, value |-> DInt(0)]

validateNumeric(var, name) ==
  LET r == isNumeric(var)
  IN  IF r.ok THEN [ok |-> TRUE, value |-> r.value, err |-> NoError]
      ELSE [ok |-> FALSE, value |-> r.value,
            err |-> stringFormat("$ must be a numeric value.", <<CStr(name)>>)]

\* The set of results: the int32_t conversion of a value out of range is
\* undefined.
validateIngeger(var, name) ==
  LET r == isNumeric(var)
      truncated == dTrunc(r.value)
  IN  IF r.ok /\ dEq(truncated, r.value)
      THEN {[ok |-> TRUE, value |-> i, err |-> NoError] : i \in ToInt32(truncated)}
      ELSE {[ok |-> FALSE, value |-> 0,
             err |-> stringFormat("$ must be an integer.", <<CStr(name)>>)]}

validateIndex(index, size, container) ==
  IF index < 0 \/ size <= index
  THEN [ok |-> FALSE,
        err |-> stringFormat("$ index out of range.", <<CStr(container)>>)]
  ELSE [ok |-> TRUE, err |-> NoError]

(***************************************************************************)
(* Maps: an array of slots, a slot with an Undefined key being empty       *)
(* (value false) or a tombstone (value true).                              *)
(***************************************************************************)
EmptySlot == [key |-> VAR_UNDEF, value |-> VAR_FALSE]

Tombstone == [key |-> VAR_UNDEF, value |-> VAR_TRUE]

SlotsOf(entries, key) == {i \in 1..Len(entries) : entries[i].key = key}

FreeSlots(entries) == SlotsOf(entries, VAR_UNDEF)

Min(S) == CHOOSE i \in S : \A j \in S : i <= j

\* The value stored under [key], Undefined when no slot holds the key.
mapGet(map, key) ==
  IF IS_UNDEF(key) \/ SlotsOf(map.entries, key) = {} THEN VAR_UNDEF
  ELSE map.entries[Min(SlotsOf(map.entries, key))].value

\* Upsert: the slot of [key] gets the value; a new key takes the first free
\* slot, and a full table grows by one slot for it.
mapSet(map, key, value) ==
  LET es == map.entries
      e == [key |-> key, value |-> value]
  IN  [map EXCEPT !.entries =
         IF SlotsOf(es, key) # {} THEN [es EXCEPT ![Min(SlotsOf(es, key))] = e]
         ELSE IF FreeSlots(es) # {} THEN [es EXCEPT ![Min(FreeSlots(es))] = e]
         ELSE Append(es, e)]

(***************************************************************************)
(* Subscript protocol.                                                     *)
(***************************************************************************)
NotSubscriptable(on) ==
  stringFormat("$ type is not subscriptable.", <<CStr(varTypeName(on))>>)

\* varGetSubscript with the List branch reading the first element whatever
\* the index is.
varGetSubscript_FirstElement(h, on, key) ==
  IF ~IS_OBJ(on) THEN {Fail(VAR_NULL, NotSubscriptable(on), h)}
  ELSE CASE on.type = "OBJ_STRING" ->
              {IF ~vi.ok THEN Fail(VAR_NULL, vi.err, h)
               ELSE LET vx == validateIndex(vi.value, Len(on.data), "String")
                    IN  IF ~vx.ok THEN Fail(VAR_NULL, vx.err, h)
                        ELSE Outcome("return",
                                     newStringLength(<<on.data[vi.value + 1]>>),
                                     NoError, h, <<"alloc">>)
                 : vi \in validateIngeger(key, "List index")}
         [] on.type = "OBJ_LIST" ->
              LET elems == h[on.ref].elements
              IN  {IF ~vi.ok THEN Fail(VAR_NULL, vi.err, h)
                   ELSE LET vx == validateIndex(vi.value, Len(elems), "List")
                        IN  IF ~vx.ok THEN Fail(VAR_NULL, vx.err, h)
                            ELSE Return(elems[1], h)
                     : vi \in validateIngeger(key, "List index")}
         [] on.type = "OBJ_MAP" ->
              LET value == mapGet(h[on.ref], key)
                  key_str == toString(key, TRUE)
              IN  IF IS_UNDEF(value)
                  THEN {Outcome("return", VAR_NULL,
                          IF IS_OBJ(key) /\ ~isObjectHashable(key.type)
                          THEN stringFormat("Invalid key '@'.", <<key_str>>)
                          ELSE stringFormat("Key '@' not exists", <<key_str>>),
                          h, <<"alloc", "push", "error", "pop">>)}
                  ELSE {Return(value, h)}
         [] OTHER -> {TODO(h)}

varGetSubscript(h, on, key) ==
  IF ~IS_OBJ(on) THEN {Fail(VAR_NULL, NotSubscriptable(on), h)}
  ELSE CASE on.type = "OBJ_STRING" ->
              {IF ~vi.ok THEN Fail(VAR_NULL, vi.err, h)
               ELSE LET vx == validateIndex(vi.value, Len(on.data), "String")
                    IN  IF ~vx.ok THEN Fail(VAR_NULL, vx.err, h)
                        ELSE Outcome("return",
                                     newStringLength(<<on.data[vi.value + 1]>>),
                                     NoError, h, <<"alloc">>)
                 : vi \in validateIngeger(key, "List index")}
         [] on.type = "OBJ_LIST" ->
              LET elems == h[on.ref].elements
              IN  {IF ~vi.ok THEN Fail(VAR_NULL, vi.err, h)
                   ELSE LET vx == validateIndex(vi.value, Len(elems), "List")
                        IN  IF ~vx.ok THEN Fail(VAR_NULL, vx.err, h)
                            ELSE Return(elems[vi.value + 1], h)
                     : vi \in validateIngeger(key, "List index")}
         [] on.type = "OBJ_MAP" ->
              LET value == mapGet(h[on.ref], key)
                  key_str == toString(key, TRUE)
              IN  IF IS_UNDEF(value)
                  THEN {Outcome("return", VAR_NULL,
                          IF IS_OBJ(key) /\ ~isObjectHashable(key.type)
                          THEN stringFormat("Invalid key '@'.", <<key_str>>)
                          ELSE stringFormat("Key '@' not exists", <<key_str>>),
                          h, <<"alloc", "push", "error", "pop">>)}
                  ELSE {Return(value, h)}
         [] OTHER -> {TODO(h)}

\* varsetSubscript that stores before it validates: a List index out of range
\* is clamped to the last element, a non-hashable Map key is stored, and the
\* error is set afterwards.
varsetSubscript_StoreFirst(h, on, key, value) ==
  IF ~IS_OBJ(on) THEN {Fail(VAR_NULL, NotSubscriptable(on), h)}
  ELSE CASE on.type = "OBJ_STRING" ->
              {Fail(VAR_NULL, newString("String objects are immutable."), h)}
         [] on.type = "OBJ_LIST" ->
              LET elems == h[on.ref].elements
              IN  {IF ~vi.ok THEN Fail(VAR_NULL, vi.err, h)
                   ELSE LET vx == validateIndex(vi.value, Len(elems), "List")
                        IN  IF ~vx.ok
                            THEN Fail(VAR_NULL, vx.err,
                                   [h EXCEPT ![on.ref].elements[Len(elems)] = value])
                            ELSE Return(VAR_NULL,
                                   [h EXCEPT ![on.ref].elements[vi.value + 1] = value])
                     : vi \in validateIngeger(key, "List index")}
         [] on.type = "OBJ_MAP" ->
              IF IS_OBJ(key) /\ ~isObjectHashable(key.type)
              THEN {Fail(VAR_NULL,
                         stringFormat("$ type is not hashable.",
                                      <<CStr(varTypeName(key))>>),
                         [h EXCEPT ![on.ref] = mapSet(@, key, value)])}
              ELSE {Return(VAR_NULL, [h EXCEPT ![on.ref] = mapSet(@, key, value)])}
         [] OTHER -> {TODO(h)}

varsetSubscript(h, on, key, value) ==
  IF ~IS_OBJ(on) THEN {Fail(VAR_NULL, NotSubscriptable(on), h)}
  ELSE CASE on.type = "OBJ_STRING" ->
              {Fail(VAR_NULL, newString("String objects are immutable."), h)}
         [] on.type = "OBJ_LIST" ->
              LET elems == h[on.ref].elements
              IN  {IF ~vi.ok THEN Fail(VAR_NULL, vi.err, h)
                   ELSE LET vx == validateIndex(vi.value, Len(elems), "List")
                        IN  IF ~vx.ok THEN Fail(VAR_NULL, vx.err, h)
                            ELSE Return(VAR_NULL,
                                   [h EXCEPT ![on.ref].elements[vi.value + 1] = value])
                     : vi \in validateIngeger(key, "List index")}
         [] on.type = "OBJ_MAP" ->
              IF IS_OBJ(key) /\ ~isObjectHashable(key.type)
              THEN {Fail(VAR_NULL,
                         stringFormat("$ type is not hashable.",
                                      <<CStr(varTypeName(key))>>), h)}
              ELSE {Return(VAR_NULL, [h EXCEPT ![on.ref] = mapSet(@, key, value)])}
         [] OTHER -> {TODO(h)}

(***************************************************************************)
(* The calls.  A call is made on a live process whose error channel is     *)
(* clear (the interpreter checks the channel after every call and stops    *)
(* the fiber when it is set); the call's record keeps its arguments, the   *)
(* heap it found and what it did.                                          *)
(***************************************************************************)
NoCall(h) ==
  [op |-> "none", args |-> <<>>, status |-> "none", ret |-> VAR_NULL,
   err |-> NoError, log |-> <<>>, pre |-> h]

Ready == ~halted /\ error = NoError

Apply(op, args, out) ==
  /\ heap' = out.heap
  /\ error' = IF out.err = NoError THEN error ELSE out.err
  /\ call' = [op |-> op, args |-> args, status |-> out.status, ret |-> out.ret,
              err |-> out.err, log |-> out.log, pre |-> heap]
  /\ halted' = (out.status # "return")

\* The host starts a new fiber after a runtime error: its error channel is
\* clear.
NewFiber ==
  /\ ~halted
  /\ error # NoError
  /\ error' = NoError
  /\ call' = NoCall(heap)
  /\ UNCHANGED <<heap, iterA, iterB, halted>>

(***************************************************************************)
(* The objects and values the calls are tried on.                          *)
(***************************************************************************)
One == VAR_NUM(DInt(1))

Seven == VAR_NUM(DInt(7))

Half == VAR_NUM(Dbl(1, 2))

StrOfLen(n) == newStringLength([i \in 1..n |-> IF i % 2 = 1 THEN "a" ELSE "b"])

SeqsUpTo(S, n) == UNION {[1..k -> S] : k \in 0..n}

NewList(elements) == [type |-> "OBJ_LIST", elements |-> elements]

NewMap(entries) == [type |-> "OBJ_MAP", entries |-> entries]

NewRange(from, to) == [type |-> "OBJ_RANGE", from |-> from, to |-> to]

OtherObjects ==
  {[type |-> k] : k \in {"OBJ_FUNC", "OBJ_SCRIPT", "OBJ_FIBER", "OBJ_USER"}}

\* The List that stands for a non-hashable key.
KeyList == VAR_OBJ("OBJ_LIST", "K")

HeapOf(c) == [r \in {"C", "K"} |-> IF r = "C" THEN c ELSE NewList(<<>>)]

Container(h) == VAR_OBJ(h["C"].type, "C")

IndexKeys ==
  {VAR_NUM(DInt(i)) : i \in -1..MaxLen}
    \cup {Half, VAR_NUM(NaN), VAR_NUM(PosInf),
          VAR_TRUE, VAR_NULL, StrOfLen(1)}

MapKeys == {One, VAR_TRUE, StrOfLen(1), KeyList}

SetValues == {Seven, StrOfLen(1)}

Receivers(h) == {VAR_NULL, One, StrOfLen(MaxLen), Container(h)}

KeysFor(on) ==
  CASE ~IS_OBJ(on) -> {VAR_NUM(DInt(0))}
    [] on.type = "OBJ_MAP" -> MapKeys
    [] OTHER -> IndexKeys

SubscriptContainers ==
  {NewList(es) : es \in SeqsUpTo({VAR_NULL, One}, MaxLen)}
    \cup {NewMap(es) : es \in [1..MapCap -> {EmptySlot, Tombstone}]}
    \cup {NewRange(DInt(0), DInt(MaxLen))}
    \cup OtherObjects

NoIter ==
  [seq |-> VAR_NULL, iterator |-> VAR_NULL, value |-> VAR_NULL, yielded |-> <<>>,
   calls |-> 0, last |-> "none", h0 |-> <<>>]

(***************************************************************************)
(* The subscript protocol as a state machine.                              *)
(***************************************************************************)
GetSubscript ==
  /\ Ready
  /\ \E on \in Receivers(heap) : \E key \in KeysFor(on) :
       \E out \in varGetSubscript(heap, on, key) :
         Apply("getSubscript", <<on, key>>, out)
  /\ UNCHANGED <<iterA, iterB>>

SetSubscript ==
  /\ Ready
  /\ \E on \in Receivers(heap) : \E key \in KeysFor(on) : \E value \in SetValues :
       \E out \in varsetSubscript(heap, on, key, value) :
         Apply("setSubscript", <<on, key, value>>, out)
  /\ UNCHANGED <<iterA, iterB>>

Init ==
  /\ heap \in {HeapOf(c) : c \in SubscriptContainers}
  /\ error = NoError
  /\ call = NoCall(heap)
  /\ iterA = NoIter
  /\ iterB = NoIter
  /\ halted = FALSE

Next == GetSubscript \/ SetSubscript \/ NewFiber

Spec == Init /\ [][Next]_vars

(***************************************************************************)
(* Iteration protocol: varIterate(vm, seq, &iterator, &value).  The result *)
(* tells how the call ended, whether there is a next value ([has]), and    *)
(* what the call left in *iterator and *value.                             *)
(***************************************************************************)
IterOutcome(status, has, iterator, value, err, h, log) ==
  [status |-> status, has |-> has, iterator |-> iterator, value |-> value,
   err |-> err, heap |-> h, log |-> log]

IterStop(iterator, value, h) ==
  IterOutcome("return", FALSE, iterator, value, NoError, h, <<>>)

\* _AS_INTEGER(var): the iterator is a Number the protocol itself stored, a
\* small non-negative integer.
AS_INTEGER(var) == dTrunc(var.num).n

\* *iterator = VAR_NUM((double)iter + 1)
NextIterator(iter) == VAR_NUM(dAdd(DInt(iter), DInt(1)))

\* iterString that yields the rest of the String instead of one byte.
iterString_Rest(h, str, iter, iterator, value) ==
  IF iter >= Len(str.data) THEN IterStop(iterator, value, h)
  ELSE IterOutcome("return", TRUE, NextIterator(iter),
                   newStringLength(SubSeq(str.data, iter + 1, Len(str.data))),
                   NoError, h, <<"alloc">>)

iterString(h, str, iter, iterator, value) ==
  IF iter >= Len(str.data) THEN IterStop(iterator, value, h)
  ELSE IterOutcome("return", TRUE, NextIterator(iter),
                   newStringLength(<<str.data[iter + 1]>>),
                   NoError, h, <<"alloc">>)

\* iterList that keeps its position in the List: it yields the first element
\* and removes it.
iterList_Consume(h, list, iter, iterator, value) ==
  LET elems == h[list.ref].elements
  IN  IF Len(elems) = 0 THEN IterStop(iterator, value, h)
      ELSE IterOutcome("return", TRUE, NextIterator(iter), elems[1], NoError,
                       [h EXCEPT ![list.ref].elements = Tail(elems)], <<>>)

iterList(h, list, iter, iterator, value) ==
  LET elems == h[list.ref].elements
  IN  IF iter >= Len(elems) THEN IterStop(iterator, value, h)
      ELSE IterOutcome("return", TRUE, NextIterator(iter), elems[iter + 1],
                       NoError, h, <<>>)

\* for (; iter < map->capacity; iter++) if (!IS_UNDEF(entries[iter].key)) break;
RECURSIVE NextValidKey(_, _)
NextValidKey(entries, iter) ==
  IF iter >= Len(entries) \/ ~IS_UNDEF(entries[iter + 1].key) THEN iter
  ELSE NextValidKey(entries, iter + 1)

\* iterMap that takes a slot for occupied by its value (an empty slot holds
\* false) instead of its key.
iterMap_ByValue(h, map, iter, iterator, value) ==
  LET entries == h[map.ref].entries
      slots == {i \in iter..(Len(entries) - 1) : entries[i + 1].value # VAR_FALSE}
  IN  IF slots = {} THEN IterStop(iterator, value, h)
      ELSE IterOutcome("return", TRUE, NextIterator(Min(slots)),
                       entries[Min(slots) + 1].key, NoError, h, <<>>)

iterMap(h, map, iter, iterator, value) ==
  LET entries == h[map.ref].entries
      found == NextValidKey(entries, iter)
  IN  IF found >= Len(entries) THEN IterStop(iterator, value, h)
      ELSE IterOutcome("return", TRUE, NextIterator(found), entries[found + 1].key,
                       NoError, h, <<>>)

\* iterRange without the test that ends the iteration at [to].
iterRange_YieldsTo(h, range, iter, iterator, value) ==
  LET from == h[range.ref].from
      to == h[range.ref].to
      current == IF dLessEq(from, to) THEN dAdd(from, DInt(iter))
                 ELSE dSub(from, DInt(iter))
  IN  IF dEq(from, to) THEN IterStop(iterator, value, h)
      ELSE IterOutcome("return", TRUE, NextIterator(iter), VAR_NUM(current),
                       NoError, h, <<>>)

iterRange(h, range, iter, iterator, value) ==
  LET from == h[range.ref].from
      to == h[range.ref].to
      current == IF dLessEq(from, to) THEN dAdd(from, DInt(iter))
                 ELSE dSub(from, DInt(iter))
  IN  IF dEq(from, to) THEN IterStop(iterator, value, h)
      ELSE IF dEq(current, to) THEN IterStop(iterator, value, h)
      ELSE IterOutcome("return", TRUE, NextIterator(iter), VAR_NUM(current),
                       NoError, h, <<>>)

NotIterable(seq) ==
  newString(CASE IS_NULL(seq) -> "Null is not iterable."
              [] IS_BOOL(seq) -> "Boolenan is not iterable."
              [] OTHER -> "Number is not iterable.")

varIterate(h, seq, iterator, value) ==
  IF ~IS_OBJ(seq)
  THEN IterOutcome("return", FALSE, iterator, VAR_NULL, NotIterable(seq), h,
                   <<"alloc", "error">>)
  ELSE LET iter == IF IS_NUM(iterator) THEN AS_INTEGER(iterator) ELSE 0
       IN  CASE seq.type = "OBJ_STRING" -> iterString(h, seq, iter, iterator, value)
             [] seq.type = "OBJ_LIST" -> iterList(h, seq, iter, iterator, value)
             [] seq.type = "OBJ_MAP" -> iterMap(h, seq, iter, iterator, value)
             [] seq.type = "OBJ_RANGE" -> iterRange(h, seq, iter, iterator, value)
             [] OTHER -> IterOutcome("abort", FALSE, iterator, value, NoError, h,
                                     <<"TODO">>)

(***************************************************************************)
(* The iteration protocol as a state machine: two iterations over the same *)
(* sequence, each keeping its own iterator and value and feeding the       *)
(* iterator a call returned into its next call, their calls interleaved.   *)
(***************************************************************************)
NewIter(h, seq) ==
  [seq |-> seq, iterator |-> VAR_NULL, value |-> VAR_NULL, yielded |-> <<>>,
   calls |-> 0, last |-> "none", h0 |-> h]

\* The iteration after one more call that ended as [out].
Advance(it, out) ==
  [it EXCEPT !.iterator = out.iterator,
             !.value = out.value,
             !.yielded = IF out.has THEN Append(@, out.value) ELSE @,
             !.calls = @ + 1,
             !.last = CASE out.status # "return" -> "abort"
                        [] out.err # NoError -> "error"
                        [] out.has -> "next"
                        [] OTHER -> "stop"]

\* The caller's loop goes on while the last call had a next value.
CanIterate(it) ==
  /\ Ready
  /\ it.last \in {"none", "next"}
  /\ Len(it.yielded) < MaxYield

IterCall(it, out) ==
  Apply("iterate", <<it.seq, it.iterator>>,
        Outcome(out.status, VAR_BOOL(out.has), out.err, out.heap, out.log))

IterateA ==
  /\ CanIterate(iterA)
  /\ LET out == varIterate(heap, iterA.seq, iterA.iterator, iterA.value)
     IN  /\ iterA' = Advance(iterA, out)
         /\ IterCall(iterA, out)
  /\ UNCHANGED iterB

IterateB ==
  /\ CanIterate(iterB)
  /\ LET out == varIterate(heap, iterB.seq, iterB.iterator, iterB.value)
     IN  /\ iterB' = Advance(iterB, out)
         /\ IterCall(iterB, out)
  /\ UNCHANGED iterA

RangeEnds == {DInt(0), DInt(1), DInt(5), Dbl(5, 2)}

\* The key the slot [i] of an initial Map holds when it is occupied.
SlotKey(i) ==
  CASE i % 3 = 1 -> VAR_NUM(DInt(i))
    [] i % 3 = 2 -> newStringLength([j \in 1..i |-> "a"])
    [] OTHER -> VAR_BOOL(i % 2 = 1)

InitialMaps ==
  {NewMap(es) : es \in
     {f \in [1..MapCap -> {EmptySlot, Tombstone} \cup
                            {[key |-> SlotKey(i), value |-> VAR_FALSE] : i \in 1..MapCap}] :
        \A i \in 1..MapCap : IS_UNDEF(f[i].key) \/ f[i].key = SlotKey(i)}}

IterContainers ==
  {NewList(es) : es \in SeqsUpTo({VAR_NULL, One}, MaxLen)}
    \cup InitialMaps
    \cup {NewRange(from, to) : from \in RangeEnds, to \in RangeEnds}
    \cup OtherObjects

IterStarts ==
  {<<HeapOf(c), VAR_OBJ(c.type, "C")>> : c \in IterContainers}
    \cup {<<HeapOf(NewList(<<>>)), seq>> :
            seq \in {StrOfLen(k) : k \in 0..MaxLen} \cup {VAR_NULL, VAR_TRUE, One}}

InitIterate ==
  /\ \E st \in IterStarts :
       /\ heap = st[1]
       /\ iterA = NewIter(st[1], st[2])
       /\ iterB = NewIter(st[1], st[2])
  /\ error = NoError
  /\ call = NoCall(heap)
  /\ halted = FALSE

NextIterate == IterateA \/ IterateB \/ NewFiber

SpecIterate == InitIterate /\ [][NextIterate]_vars

(***************************************************************************)
(* Operators.                                                              *)
(***************************************************************************)
\* UNSUPPORT_OPERAND_TYPES(op)
UnsupportedOperands(op, v1, v2) ==
  stringFormat("Unsupported operand types for operator '$' $ and $",
               <<CStr(op), CStr(varTypeName(v1)), CStr(varTypeName(v2))>>)

\* The numeric part shared by the five arithmetic operators: with a numeric
\* left operand the right one is validated and the result computed.
NumericOp(h, v1, v2, result) ==
  LET vn == validateNumeric(v2, "Right operand")
  IN  IF vn.ok THEN Return(VAR_NUM(result), h) ELSE Fail(VAR_NULL, vn.err, h)

varAdd(h, v1, v2) ==
  LET d1 == isNumeric(v1)
      d2 == isNumeric(v2)
  IN  IF d1.ok THEN NumericOp(h, v1, v2, dAdd(d1.value, d2.value))
      ELSE IF IS_OBJ(v1) /\ IS_OBJ(v2) /\ v1.type = "OBJ_STRING"
                /\ v2.type = "OBJ_STRING"
      THEN Outcome("return", stringFormat("@@", <<v1, v2>>), NoError, h, <<"alloc">>)
      ELSE IF IS_OBJ(v1) /\ IS_OBJ(v2) /\ v1.type = "OBJ_LIST"
      THEN TODO(h)
      ELSE Fail(VAR_NULL, UnsupportedOperands("+", v1, v2), h)

varSubtract(h, v1, v2) ==
  LET d1 == isNumeric(v1)
      d2 == isNumeric(v2)
  IN  IF d1.ok THEN NumericOp(h, v1, v2, dSub(d1.value, d2.value))
      ELSE Fail(VAR_NULL, UnsupportedOperands("-", v1, v2), h)

varMultiply(h, v1, v2) ==
  LET d1 == isNumeric(v1)
      d2 == isNumeric(v2)
  IN  IF d1.ok THEN NumericOp(h, v1, v2, dMul(d1.value, d2.value))
      ELSE Fail(VAR_NULL, UnsupportedOperands("*", v1, v2), h)

varDivide(h, v1, v2) ==
  LET d1 == isNumeric(v1)
      d2 == isNumeric(v2)
  IN  IF d1.ok THEN NumericOp(h, v1, v2, dDiv(d1.value, d2.value))
      ELSE Fail(VAR_NULL, UnsupportedOperands("/", v1, v2), h)

varModulo(h, v1, v2) ==
  LET d1 == isNumeric(v1)
      d2 == isNumeric(v2)
  IN  IF d1.ok THEN NumericOp(h, v1, v2, dFmod(d1.value, d2.value))
      ELSE IF IS_OBJ(v1) /\ v1.type = "OBJ_STRING" THEN TODO(h)
      ELSE Fail(VAR_NULL, UnsupportedOperands("%", v1, v2), h)

varGreater(h, v1, v2) ==
  LET d1 == isNumeric(v1)
      d2 == isNumeric(v2)
  IN  IF d1.ok /\ d2.ok THEN Return(VAR_BOOL(dGreater(d1.value, d2.value)), h)
      ELSE TODO(h)

varLesser(h, v1, v2) ==
  LET d1 == isNumeric(v1)
      d2 == isNumeric(v2)
  IN  IF d1.ok /\ d2.ok THEN Return(VAR_BOOL(dLess(d1.value, d2.value)), h)
      ELSE TODO(h)

(***************************************************************************)
(* The operators as a state machine: one object of every kind, and every   *)
(* pair of operands.                                                       *)
(***************************************************************************)
ObjectKinds ==
  {"OBJ_LIST", "OBJ_MAP", "OBJ_RANGE", "OBJ_FUNC", "OBJ_SCRIPT", "OBJ_FIBER",
   "OBJ_USER"}

ObjectOfKind(k) ==
  CASE k = "OBJ_LIST" -> NewList(<<One>>)
    [] k = "OBJ_MAP" -> NewMap([i \in 1..MapCap |-> EmptySlot])
    [] k = "OBJ_RANGE" -> NewRange(DInt(0), DInt(MaxLen))
    [] OTHER -> [type |-> k]

KindsHeap == [k \in ObjectKinds |-> ObjectOfKind(k)]

Operands ==
  {VAR_NULL, VAR_TRUE, VAR_FALSE, VAR_NUM(DInt(0)), One, VAR_NUM(Dbl(-5, 2)),
   VAR_NUM(NaN)}
    \cup {StrOfLen(k) : k \in 0..MaxLen}
    \cup {VAR_OBJ(k, k) : k \in ObjectKinds}

Add ==
  /\ Ready
  /\ \E v1 \in Operands, v2 \in Operands : Apply("add", <<v1, v2>>, varAdd(heap, v1, v2))
  /\ UNCHANGED <<iterA, iterB>>

Subtract ==
  /\ Ready
  /\ \E v1 \in Operands, v2 \in Operands :
       Apply("subtract", <<v1, v2>>, varSubtract(heap, v1, v2))
  /\ UNCHANGED <<iterA, iterB>>

Multiply ==
  /\ Ready
  /\ \E v1 \in Operands, v2 \in Operands :
       Apply("multiply", <<v1, v2>>, varMultiply(heap, v1, v2))
  /\ UNCHANGED <<iterA, iterB>>

Divide ==
  /\ Ready
  /\ \E v1 \in Operands, v2 \in Operands :
       Apply("divide", <<v1, v2>>, varDivide(heap, v1, v2))
  /\ UNCHANGED <<iterA, iterB>>

Modulo ==
  /\ Ready
  /\ \E v1 \in Operands, v2 \in Operands :
       Apply("modulo", <<v1, v2>>, varModulo(heap, v1, v2))
  /\ UNCHANGED <<iterA, iterB>>

Greater ==
  /\ Ready
  /\ \E v1 \in Operands, v2 \in Operands :
       Apply("greater", <<v1, v2>>, varGreater(heap, v1, v2))
  /\ UNCHANGED <<iterA, iterB>>

Lesser ==
  /\ Ready
  /\ \E v1 \in Operands, v2 \in Operands :
       Apply("lesser", <<v1, v2>>, varLesser(heap, v1, v2))
  /\ UNCHANGED <<iterA, iterB>>

InitOperators ==
  /\ heap = KindsHeap
  /\ error = NoError
  /\ call = NoCall(heap)
  /\ iterA = NoIter
  /\ iterB = NoIter
  /\ halted = FALSE

NextOperators ==
  Add \/ Subtract \/ Multiply \/ Divide \/ Modulo \/ Greater \/ Lesser \/ NewFiber

SpecOperators == InitOperators /\ [][NextOperators]_vars

(***************************************************************************)
(* Builtin functions.  A builtin finds its arguments in ARG(1)..ARG(ARGC)  *)
(* and writes its result to the return slot with RET.  What it reads       *)
(* through a pointer that is no String is undefined: the process crashes,  *)
(* or the call goes on with whatever bytes were there.                     *)
(***************************************************************************)
Crash(err, h, log) == Outcome("crash", VAR_NULL, err, h, log)

\* What reading a String through a pointer to something else can give.
GarbageData == {<<>>, <<"?">>}

\* The result is the set of [ok, value, err, log] the check can give, value
\* being the data the caller finds when it reads *value as a String.
validateArgString(var, arg_ind) ==
  IF ~IS_OBJ(var) \/ var.type # "OBJ_STRING"
  THEN LET str_arg == toString(VAR_NUM(DInt(arg_ind)), FALSE)
       IN  [ok |-> TRUE, isString |-> FALSE,
            err |-> stringFormat("Expected a string at argument @.", <<str_arg>>),
            log |-> <<"alloc", "push", "alloc", "error", "pop",
                      "validateArgString:true">>]
  ELSE [ok |-> TRUE, isString |-> TRUE, err |-> NoError,
        log |-> <<"validateArgString:true">>]

\* The data read from the String* the check handed out.
StringData(var, checked) ==
  IF checked.isString THEN {[crash |-> FALSE, data |-> var.data]}
  ELSE {[crash |-> TRUE, data |-> <<>>]}
         \cup {[crash |-> FALSE, data |-> g] : g \in GarbageData}

tolower(ch) == IF ch = "B" THEN "b" ELSE ch

toupper(ch) == IF ch = "a" THEN "A" ELSE ch

isspace(ch) == ch = " "

\* RET(value)
RET(value, err, h, log) == Outcome("return", value, err, h, log \o <<"ret">>)

coreStrLower(h, args) ==
  LET checked == validateArgString(args[1], 1)
  IN  IF ~checked.ok THEN {Outcome("return", VAR_NULL, checked.err, h, checked.log)}
      ELSE {IF str.crash
            THEN Crash(checked.err, h, checked.log \o <<"read-as-String">>)
            ELSE RET(newStringLength([i \in 1..Len(str.data) |-> tolower(str.data[i])]),
                     checked.err, h,
                     checked.log \o <<"read-as-String", "alloc", "rehash">>)
            : str \in StringData(args[1], checked)}

coreStrUpper(h, args) ==
  LET checked == validateArgString(args[1], 1)
  IN  IF ~checked.ok THEN {Outcome("return", VAR_NULL, checked.err, h, checked.log)}
      ELSE {IF str.crash
            THEN Crash(checked.err, h, checked.log \o <<"read-as-String">>)
            ELSE RET(newStringLength([i \in 1..Len(str.data) |-> toupper(str.data[i])]),
                     checked.err, h,
                     checked.log \o <<"read-as-String", "alloc", "rehash">>)
            : str \in StringData(args[1], checked)}

coreStrStrip(h, args) ==
  LET checked == validateArgString(args[1], 1)
      Stripped(data) ==
        LET solid == {i \in 1..Len(data) : ~isspace(data[i])}
        IN  IF solid = {} THEN <<>>
            ELSE SubSeq(data, Min(solid), CHOOSE e \in solid : \A i \in solid : i <= e)
  IN  IF ~checked.ok THEN {Outcome("return", VAR_NULL, checked.err, h, checked.log)}
      ELSE {IF str.crash
            THEN Crash(checked.err, h, checked.log \o <<"read-as-String">>)
            ELSE RET(newStringLength(Stripped(str.data)), checked.err, h,
                     checked.log \o <<"read-as-String", "alloc">>)
            : str \in StringData(args[1], checked)}

\* The message of a failed assertion: AS_OBJ(ARG2)->type is read whatever
\* ARG2 is.
AssertionMessages(ARG2) ==
  IF IS_OBJ(ARG2)
  THEN {[crash |-> FALSE,
         msg |-> IF ARG2.type # "OBJ_STRING" THEN toString(ARG2, FALSE) ELSE ARG2]}
  ELSE {[crash |-> TRUE, msg |-> VAR_NULL],
        [crash |-> FALSE, msg |-> toString(ARG2, FALSE)]}
         \cup {[crash |-> FALSE, msg |-> newStringLength(g)] : g \in GarbageData}

coreAssert(h, args) ==
  LET argc == Len(args)
  IN  IF argc # 1 /\ argc # 2
      THEN {Fail(VAR_NULL, newString("Invalid argument count."), h)}
      ELSE IF ~toBool(args[1])
      THEN IF argc = 2
           THEN {IF m.crash THEN Crash(NoError, h, <<"read-as-Object">>)
                 ELSE Outcome("return", VAR_NULL,
                              stringFormat("Assertion failed: '@'.", <<m.msg>>), h,
                              <<"read-as-Object", "push", "alloc", "error", "pop">>)
                 : m \in AssertionMessages(args[2])}
           ELSE {Fail(VAR_NULL, newString("Assertion failed."), h)}
      ELSE {Return(VAR_NULL, h)}

(***************************************************************************)
(* The builtins as a state machine.                                        *)
(***************************************************************************)
BuiltinsHeap == [KindsHeap EXCEPT !["OBJ_LIST"] = NewList(<<>>)]

NonStrings ==
  {VAR_NULL, VAR_TRUE, VAR_FALSE, VAR_NUM(DInt(0)), One}
    \cup {VAR_OBJ(k, k) : k \in ObjectKinds}

Strings == {newStringLength(d) : d \in SeqsUpTo({"a", "B", " "}, MaxLen)}

BuiltinArgs == NonStrings \cup Strings

AssertArgs == NonStrings \cup {StrOfLen(0), StrOfLen(1)}

StrLower ==
  /\ Ready
  /\ \E a \in BuiltinArgs : \E out \in coreStrLower(heap, <<a>>) :
       Apply("str_lower", <<a>>, out)
  /\ UNCHANGED <<iterA, iterB>>

StrUpper ==
  /\ Ready
  /\ \E a \in BuiltinArgs : \E out \in coreStrUpper(heap, <<a>>) :
       Apply("str_upper", <<a>>, out)
  /\ UNCHANGED <<iterA, iterB>>

StrStrip ==
  /\ Ready
  /\ \E a \in BuiltinArgs : \E out \in coreStrStrip(heap, <<a>>) :
       Apply("str_strip", <<a>>, out)
  /\ UNCHANGED <<iterA, iterB>>

CallAssert ==
  /\ Ready
  /\ \E args \in SeqsUpTo(AssertArgs, MaxArgc) : \E out \in coreAssert(heap, args) :
       Apply("assert", args, out)
  /\ UNCHANGED <<iterA, iterB>>

InitBuiltins ==
  /\ heap = BuiltinsHeap
  /\ error = NoError
  /\ call = NoCall(heap)
  /\ iterA = NoIter
  /\ iterB = NoIter
  /\ halted = FALSE

NextBuiltins == StrLower \/ StrUpper \/ StrStrip \/ CallAssert \/ NewFiber

SpecBuiltins == InitBuiltins /\ [][NextBuiltins]_vars

(***************************************************************************)
(* The argument getters of the native function interface.  The arguments   *)
(* of the running call are the slots ret[1] .. ret[ARGC] of the fiber.     *)
(***************************************************************************)
\* __ASSERT(false, message): the host did something wrong, the process stops.
FatalAssertion(h, message) == Outcome("abort", VAR_NULL, NoError, h, <<message>>)

\* sprintf(buff, "%d", arg)
CInt(n) == [d |-> n]

ARGC(window) == Len(window)

\* What a slot outside the argument window can hold: the return slot, a
\* slot of the caller, or whatever lies above the stack pointer.
StaleSlots == {VAR_NULL, One}

\* ARG(n): the slots ret[n] can be, and whether it is an argument.
ARG(window, n) ==
  IF n \in 1..Len(window) THEN {[inside |-> TRUE, val |-> window[n]]}
  ELSE {[inside |-> FALSE, val |-> v] : v \in StaleSlots}

ReadOf(slot) == IF slot.inside THEN "read-argument" ELSE "read-outside-window"

\* The condition of __ASSERT(arg > 0 || arg < ARGC, "Invalid argument index.")
ValidArgIndex(window, arg) == arg > 0 \/ arg < ARGC(window)

\* The two assertions of CHECK_GET_ARG_API_ERRORS on a running fiber; <<>>
\* when both hold.
CHECK_GET_ARG_API_ERRORS(h, window, arg, valueIsNull) ==
  IF ~ValidArgIndex(window, arg) THEN <<FatalAssertion(h, "Invalid argument index.")>>
  ELSE IF valueIsNull THEN <<FatalAssertion(h, "Parameter [value] was NULL.")>>
  ELSE <<>>

\* The result of a getter: what it returns and what it stores to *value.
Got(ok, value) == [ok |-> ok, value |-> value]

pkGetArg(h, window, arg) ==
  IF ~ValidArgIndex(window, arg) THEN {FatalAssertion(h, "Invalid argument index.")}
  ELSE {Outcome("return", Got(TRUE, slot.val), NoError, h, <<ReadOf(slot)>>)
        : slot \in ARG(window, arg)}

pkGetArgNumber(h, window, arg, valueIsNull) ==
  LET failed == CHECK_GET_ARG_API_ERRORS(h, window, arg, valueIsNull)
  IN  IF failed # <<>> THEN {failed[1]}
      ELSE {LET val == slot.val
            IN  IF IS_NUM(val)
                THEN Outcome("return", Got(TRUE, val), NoError, h, <<ReadOf(slot)>>)
                ELSE IF IS_BOOL(val)
                THEN Outcome("return",
                             Got(TRUE, VAR_NUM(IF val.b THEN DInt(1) ELSE DInt(0))),
                             NoError, h, <<ReadOf(slot)>>)
                ELSE Outcome("return", Got(FALSE, VAR_UNDEF),
                             stringFormat("Expected a number at argument $.",
                                          <<CInt(arg)>>),
                             h, <<ReadOf(slot), "alloc", "error">>)
            : slot \in ARG(window, arg)}

pkGetArgBool(h, window, arg, valueIsNull) ==
  LET failed == CHECK_GET_ARG_API_ERRORS(h, window, arg, valueIsNull)
  IN  IF failed # <<>> THEN {failed[1]}
      ELSE {Outcome("return", Got(TRUE, VAR_BOOL(toBool(slot.val))), NoError, h,
                    <<ReadOf(slot)>>)
            : slot \in ARG(window, arg)}

\* The type the host sees a value as.
pkGetValueType(v) ==
  CASE IS_NULL(v) -> "PK_NULL"
    [] IS_BOOL(v) -> "PK_BOOL"
    [] IS_NUM(v) -> "PK_NUMBER"
    [] IsString(v) -> "PK_STRING"
    [] OTHER -> "PK_OBJECT"

\* *value = (PkVar)&val: the address of a local of the getter, whose slot is
\* dead when the caller reads it.
DanglingLocal(val) == {val, VAR_UNDEF}

pkGetArgValue(h, window, arg, type, valueIsNull) ==
  LET failed == CHECK_GET_ARG_API_ERRORS(h, window, arg, valueIsNull)
  IN  IF failed # <<>> THEN {failed[1]}
      ELSE UNION {
             IF pkGetValueType(slot.val) # type
             THEN {Outcome("return", Got(FALSE, VAR_UNDEF),
                           stringFormat("Expected a $ at argument $.",
                                        <<CStr(type), CInt(arg)>>),
                           h, <<ReadOf(slot), "alloc", "error">>)}
             ELSE {Outcome("return", Got(TRUE, seen), NoError, h, <<ReadOf(slot)>>)
                   : seen \in DanglingLocal(slot.val)}
             : slot \in ARG(window, arg)}

(***************************************************************************)
(* The getters as a state machine: a native function running with up to   *)
(* MaxArgc arguments asks for the argument at any index around them.       *)
(***************************************************************************)
ArgValues == {VAR_TRUE, One, StrOfLen(1)}

Windows == SeqsUpTo(ArgValues, MaxArgc)

ArgIndices == (0 - 1)..(MaxArgc + 1)

PkVarTypes == {"PK_NUMBER", "PK_STRING"}

Asked(window, arg) == [window |-> window, arg |-> arg]

GetArg ==
  /\ Ready
  /\ \E window \in Windows, arg \in ArgIndices :
       \E out \in pkGetArg(heap, window, arg) :
         Apply("pkGetArg", Asked(window, arg), out)
  /\ UNCHANGED <<iterA, iterB>>

GetArgNumber ==
  /\ Ready
  /\ \E window \in Windows, arg \in ArgIndices, valueIsNull \in BOOLEAN :
       \E out \in pkGetArgNumber(heap, window, arg, valueIsNull) :
         Apply("pkGetArgNumber", Asked(window, arg), out)
  /\ UNCHANGED <<iterA, iterB>>

GetArgBool ==
  /\ Ready
  /\ \E window \in Windows, arg \in ArgIndices, valueIsNull \in BOOLEAN :
       \E out \in pkGetArgBool(heap, window, arg, valueIsNull) :
         Apply("pkGetArgBool", Asked(window, arg), out)
  /\ UNCHANGED <<iterA, iterB>>

GetArgValue ==
  /\ Ready
  /\ \E window \in Windows, arg \in ArgIndices, type \in PkVarTypes,
        valueIsNull \in BOOLEAN :
       \E out \in pkGetArgValue(heap, window, arg, type, valueIsNull) :
         Apply("pkGetArgValue", Asked(window, arg), out)
  /\ UNCHANGED <<iterA, iterB>>

InitNative ==
  /\ heap = BuiltinsHeap
  /\ error = NoError
  /\ call = NoCall(heap)
  /\ iterA = NoIter
  /\ iterB = NoIter
  /\ halted = FALSE

NextNative == GetArg \/ GetArgNumber \/ GetArgBool \/ GetArgValue \/ NewFiber

SpecNative == InitNative /\ [][NextNative]_vars

(***************************************************************************)
(* Attributes.  Names are sequences of characters, as the data of the      *)
(* attribute String and the names a Script keeps.                          *)
(***************************************************************************)
\* A C string given by its characters, handed to stringFormat for a '$'.
CData(chars) == [chars |-> chars]

LengthName == <<"l", "e", "n", "g", "t", "h">>

\* IS_ATTRIB(name)
IS_ATTRIB(attrib, name) == attrib.data = name

\* ERR_NO_ATTRIB()
ERR_NO_ATTRIB(on, attrib) ==
  stringFormat("'$' objects has no attribute named '$'",
               <<CStr(varTypeName(on)), CData(attrib.data)>>)

\* The error of ATTRIB_IMMUTABLE(prop)
AttribImmutable(prop) == stringFormat("'$' attribute is immutable.", <<CData(prop)>>)

NewScript(name, functions, global_names, globals) ==
  [type |-> "OBJ_SCRIPT", moudle |-> name, functions |-> functions,
   global_names |-> global_names, globals |-> globals]

\* The index of the function (global) named [name], -1 when there is none.
scriptSearchFunc(script, name) ==
  LET found == {i \in 1..Len(script.functions) : script.functions[i].name = name}
  IN  IF found = {} THEN 0 - 1 ELSE Min(found) - 1

scriptSearchGlobals(script, name) ==
  LET found == {i \in 1..Len(script.global_names) : script.global_names[i] = name}
  IN  IF found = {} THEN 0 - 1 ELSE Min(found) - 1

\* The attribute is immutable whatever its name.
varSetAttrib_AnyNameImmutable(h, on, attrib, value) ==
  IF IS_OBJ(on) /\ on.type \in {"OBJ_STRING", "OBJ_LIST"}
  THEN Fail(VAR_NULL, AttribImmutable(attrib.data), h)
  ELSE Fail(VAR_NULL, ERR_NO_ATTRIB(on, attrib), h)

varSetAttrib(h, on, attrib, value) ==
  IF ~IS_OBJ(on) THEN Fail(VAR_NULL, NotSubscriptable(on), h)
  ELSE CASE on.type \in {"OBJ_STRING", "OBJ_LIST"} ->
              IF IS_ATTRIB(attrib, LengthName)
              THEN Fail(VAR_NULL, AttribImmutable(LengthName), h)
              ELSE Fail(VAR_NULL, ERR_NO_ATTRIB(on, attrib), h)
         [] on.type \in {"OBJ_MAP", "OBJ_USER"} -> TODO(h)
         [] on.type \in {"OBJ_RANGE", "OBJ_FUNC", "OBJ_FIBER"} ->
              Fail(VAR_NULL, ERR_NO_ATTRIB(on, attrib), h)
         [] on.type = "OBJ_SCRIPT" ->
              LET scr == h[on.ref]
                  global == scriptSearchGlobals(scr, attrib.data)
                  func == scriptSearchFunc(scr, attrib.data)
              IN  IF global # 0 - 1
                  THEN Return(VAR_NULL,
                              [h EXCEPT ![on.ref].globals[global + 1] = value])
                  ELSE IF func # 0 - 1
                  THEN Fail(VAR_NULL, AttribImmutable(scr.functions[func + 1].name), h)
                  ELSE Fail(VAR_NULL, ERR_NO_ATTRIB(on, attrib), h)

(***************************************************************************)
(* Attribute writes as a state machine.                                    *)
(***************************************************************************)
NativeFunction(name, arity) == [name |-> name, arity |-> arity, native |-> TRUE]

AttribHeap ==
  [KindsHeap EXCEPT !["OBJ_SCRIPT"] =
     NewScript(<<"m">>, <<NativeFunction(<<"f">>, 0)>>, <<<<"g">>>>, <<VAR_NULL>>)]

AttribNames == {LengthName, <<"f">>, <<"g">>, <<"x">>, <<>>}

AttribReceivers ==
  {VAR_NULL, VAR_TRUE, One} \cup {StrOfLen(k) : k \in 0..MaxLen}
    \cup {VAR_OBJ(k, k) : k \in ObjectKinds}

SetAttrib ==
  /\ Ready
  /\ \E on \in AttribReceivers, name \in AttribNames, value \in {VAR_NULL, One, VAR_TRUE} :
       Apply("setAttrib", <<on, newStringLength(name), value>>,
             varSetAttrib(heap, on, newStringLength(name), value))
  /\ UNCHANGED <<iterA, iterB>>

InitAttrib ==
  /\ heap = AttribHeap
  /\ error = NoError
  /\ call = NoCall(heap)
  /\ iterA = NoIter
  /\ iterB = NoIter
  /\ halted = FALSE

NextAttrib == SetAttrib \/ NewFiber

SpecAttrib == InitAttrib /\ [][NextAttrib]_vars

(***************************************************************************)
(* Modules.  The heap of the registry: vm->core_libs at reference 0, the   *)
(* Scripts at the references after it.                                      *)
(***************************************************************************)
CoreLibs == 0

NewRef(h) == (CHOOSE r \in DOMAIN h : \A q \in DOMAIN h : q <= r) + 1

\* __ASSERT(false, stringFormat(...)->data): the message is allocated, the
\* process stops.
AssertFalse(h, log, message) ==
  Outcome("abort", VAR_NULL, NoError, h, log \o <<"alloc", message>>)

newModuleInternal(h, name) ==
  LET _name == newStringLength(name)
  IN  IF ~IS_UNDEF(mapGet(h[CoreLibs], _name))
      THEN AssertFalse(h, <<"alloc", "push", "pop">>, "A module named '$' already exists")
      ELSE LET scr == NewRef(h)
               created == [r \in DOMAIN h \cup {scr} |->
                             IF r = scr THEN NewScript(_name, <<>>, <<>>, <<>>) ELSE h[r]]
           IN  Outcome("return", VAR_OBJ("OBJ_SCRIPT", scr), NoError,
                       [created EXCEPT ![CoreLibs] =
                          mapSet(@, _name, VAR_OBJ("OBJ_SCRIPT", scr))],
                       <<"alloc", "push", "alloc", "pop", "push", "mapSet", "pop">>)

\* newFunction(vm, name, length, owner, true): the function is added to the
\* functions of its owner.
newFunction(h, name, owner) ==
  [h EXCEPT ![owner].functions = Append(@, NativeFunction(name, 0))]

\* The function is added without looking at the globals.
moduleAddFunctionInternal_NoGlobalCheck(h, script, name, arity) ==
  IF scriptSearchFunc(h[script], name) # 0 - 1
  THEN AssertFalse(h, <<>>, "A function named '$' already esists on module '@'")
  ELSE Outcome("return", VAR_NULL, NoError,
               [newFunction(h, name, script) EXCEPT
                  ![script].functions[Len(h[script].functions) + 1].arity = arity],
               <<"alloc">>)

moduleAddFunctionInternal(h, script, name, arity) ==
  IF scriptSearchFunc(h[script], name) # 0 - 1
  THEN AssertFalse(h, <<>>, "A function named '$' already esists on module '@'")
  ELSE IF scriptSearchGlobals(h[script], name) # 0 - 1
  THEN AssertFalse(h, <<>>, "A global variable named '$' already esists on module '@'")
  ELSE Outcome("return", VAR_NULL, NoError,
               [newFunction(h, name, script) EXCEPT
                  ![script].functions[Len(h[script].functions) + 1].arity = arity],
               <<"alloc">>)

\* A PkHandle* is NULL or holds a value.
NullHandle == [t |-> "NULL"]

Handle(v) == [value |-> v]

pkNewModule(h, name) ==
  LET made == newModuleInternal(h, name)
  IN  IF made.status = "return"
      THEN [made EXCEPT !.ret = Handle(made.ret), !.log = @ \o <<"alloc">>]
      ELSE made

pkModuleAddFunction(h, module, name, arity) ==
  IF module = NullHandle THEN FatalAssertion(h, "Argument module was NULL.")
  ELSE LET scr == module.value
       IN  IF ~(IS_OBJ(scr) /\ scr.type = "OBJ_SCRIPT")
           THEN FatalAssertion(h, "Given handle is not a module")
           ELSE moduleAddFunctionInternal(h, scr.ref, name, arity)

(***************************************************************************)
(* The registry as a state machine.  It starts as initializeCore leaves    *)
(* it, the module lang with its three functions, next to a script the      *)
(* host compiled, which has a global.                                      *)
(***************************************************************************)
LangName == <<"l", "a", "n", "g">>

ClockName == <<"c", "l", "o", "c", "k">>

GcName == <<"g", "c">>

WriteName == <<"w", "r", "i", "t", "e">>

CoreModules ==
  LET empty == [r \in {CoreLibs} |-> NewMap(<<>>)]
      lang == newModuleInternal(empty, LangName)
      clock == moduleAddFunctionInternal(lang.heap, lang.ret.ref, ClockName, 0)
      gc == moduleAddFunctionInternal(clock.heap, lang.ret.ref, GcName, 0)
      write == moduleAddFunctionInternal(gc.heap, lang.ret.ref, WriteName, 0 - 1)
  IN  write.heap

CompiledScript ==
  NewScript(newStringLength(<<"s">>), <<>>, <<GcName>>, <<VAR_NULL>>)

ModulesHeap ==
  LET core == CoreModules
      scr == NewRef(core)
  IN  [r \in DOMAIN core \cup {scr} |-> IF r = scr THEN CompiledScript ELSE core[r]]

ModuleNames == {LangName, <<"m">>}

FunctionNames == {ClockName, GcName, <<"f">>}

Handles(h) ==
  {NullHandle, Handle(One)} \cup {Handle(VAR_OBJ(h[r].type, r)) : r \in DOMAIN h}

NewModule ==
  /\ Ready
  /\ \E name \in ModuleNames : Apply("pkNewModule", <<name>>, pkNewModule(heap, name))
  /\ UNCHANGED <<iterA, iterB>>

ModuleAddFunction ==
  /\ Ready
  /\ \E module \in Handles(heap), name \in FunctionNames, arity \in {0 - 1, 1} :
       Apply("pkModuleAddFunction", <<module, name, arity>>,
             pkModuleAddFunction(heap, module, name, arity))
  /\ UNCHANGED <<iterA, iterB>>

InitModules ==
  /\ heap = ModulesHeap
  /\ error = NoError
  /\ call = NoCall(heap)
  /\ iterA = NoIter
  /\ iterB = NoIter
  /\ halted = FALSE

NextModules == NewModule \/ ModuleAddFunction

SpecModules == InitModules /\ [][NextModules]_vars

(***************************************************************************)
(* Temporary roots.  An operation seen as the allocations, pins and        *)
(* stores it makes, in order.  An allocation may run a collection first,   *)
(* which frees every object no root, temporary or permanent, leads to.     *)
(***************************************************************************)
Step(i, obj, uses, to) == [i |-> i, obj |-> obj, uses |-> uses, to |-> to]

\* An allocating call creating [obj] and reading [uses] while it does.
Allocating(obj, uses) == Step("alloc", obj, uses, "")

vmPushTempRef(obj) == Step("push", obj, {}, "")

vmPopTempRef == Step("pop", "", {}, "")

\* [obj] is stored where the collector finds it: the error channel, the
\* return slot, the registry.
Stored(obj) == Step("store", obj, {}, "")

\* The object [obj] gets a reference to [to].
Linked(obj, to) == Step("link", obj, {}, to)

\* [obj] is read.
Reading(obj) == Step("read", obj, {}, "")

\* __ASSERT(false, ...)
Stopping == Step("stop", "", {}, "")

\* coreAssert without the pin of the message.
coreAssertSteps_Unpinned(argc, condition, messageIsString) ==
  IF argc # 1 /\ argc # 2 THEN <<Allocating("error", {}), Stored("error")>>
  ELSE IF ~condition
  THEN IF argc = 2
       THEN IF ~messageIsString
            THEN <<Allocating("msg", {"arg"}), Allocating("error", {"msg"}),
                   Stored("error")>>
            ELSE <<Allocating("error", {"arg"}), Stored("error")>>
       ELSE <<Allocating("error", {}), Stored("error")>>
  ELSE <<Reading("arg")>>

coreAssertSteps(argc, condition, messageIsString) ==
  IF argc # 1 /\ argc # 2 THEN <<Allocating("error", {}), Stored("error")>>
  ELSE IF ~condition
  THEN IF argc = 2
       THEN IF ~messageIsString
            THEN <<Allocating("msg", {"arg"}), vmPushTempRef("msg"),
                   Allocating("error", {"msg"}), Stored("error"), vmPopTempRef>>
            ELSE <<vmPushTempRef("arg"), Allocating("error", {"arg"}),
                   Stored("error"), vmPopTempRef>>
       ELSE <<Allocating("error", {}), Stored("error")>>
  ELSE <<Reading("arg")>>

newModuleInternalSteps(exists) ==
  <<Allocating("_name", {}), vmPushTempRef("_name"), Reading("_name")>>
    \o (IF exists THEN <<vmPopTempRef, Allocating("message", {}), Stopping>>
        ELSE <<Allocating("scr", {"_name"}), Linked("scr", "_name"), vmPopTempRef,
               vmPushTempRef("scr"), Allocating("entries", {"_name", "scr"}),
               Stored("scr"), vmPopTempRef>>)

moduleAddFunctionInternalSteps(collides) ==
  IF collides THEN <<Allocating("message", {"arg"}), Stopping>>
  ELSE <<Allocating("fn", {"arg"}), Stored("fn")>>

validateArgStringSteps(isString) ==
  IF ~isString
  THEN <<Allocating("str_arg", {}), vmPushTempRef("str_arg"),
         Allocating("error", {"str_arg"}), Stored("error"), vmPopTempRef>>
  ELSE <<Reading("arg")>>

\* varGetSubscript on a Map
mapSubscriptSteps(found) ==
  IF ~found
  THEN <<Reading("arg"), Allocating("key_str", {"arg"}), vmPushTempRef("key_str"),
         Allocating("error", {"key_str"}), Stored("error"), vmPopTempRef>>
  ELSE <<Reading("arg")>>

\* The operations that allocate once: the result, or the error, is stored
\* as soon as it exists.
singleAllocationSteps == <<Allocating("result", {"arg"}), Stored("result")>>

\* corePrint, stdLangWrite: the string form is written, then dropped.
printSteps(isString) ==
  IF isString THEN <<Reading("arg")>>
  ELSE <<Allocating("str", {"arg"}), Reading("str")>>

Operations ==
  {[op |-> "coreAssert", steps |-> coreAssertSteps(argc, condition, isString)] :
     argc \in 0..MaxArgc, condition \in BOOLEAN, isString \in BOOLEAN}
    \cup {[op |-> "newModuleInternal", steps |-> newModuleInternalSteps(exists)] :
            exists \in BOOLEAN}
    \cup {[op |-> "moduleAddFunctionInternal",
           steps |-> moduleAddFunctionInternalSteps(collides)] : collides \in BOOLEAN}
    \cup {[op |-> "validateArgString", steps |-> validateArgStringSteps(isString)] :
            isString \in BOOLEAN}
    \cup {[op |-> "varGetSubscript", steps |-> mapSubscriptSteps(found)] :
            found \in BOOLEAN}
    \cup {[op |-> "corePrint", steps |-> printSteps(isString)] : isString \in BOOLEAN}
    \cup {[op |-> "single", steps |-> singleAllocationSteps]}

\* The objects the collector reaches from [from] in [h].
RECURSIVE Marked(_, _)
Marked(from, edges) ==
  LET more == from \cup {e[2] : e \in {d \in edges : d[1] \in from}}
  IN  IF more = from THEN from ELSE Marked(more, edges)

ReachableIn(h) ==
  Marked(h.roots \cup {h.temps[i] : i \in 1..Len(h.temps)}, h.edges)

\* The temporary roots the callers hold when the operation starts.
EntryTemps(depth) == [i \in 1..depth |-> "caller"]

Running == ~halted /\ call.status = "running"

Current == call.steps[call.pc]

Proceed(c) ==
  [c EXCEPT !.pc = @ + 1,
            !.status = IF c.pc = Len(c.steps) THEN "return" ELSE "running"]

Begin ==
  /\ ~halted
  /\ call.status # "running"
  /\ \E operation \in Operations, depth \in 0..1 :
       /\ heap' = [live |-> {"arg", "caller"}, edges |-> {}, roots |-> {"arg"},
                   temps |-> EntryTemps(depth)]
       /\ call' = [op |-> operation.op, steps |-> operation.steps, pc |-> 1,
                   entry |-> depth, status |-> "running", freed |-> {},
                   collections |-> 0]
  /\ UNCHANGED <<error, iterA, iterB, halted>>

\* An allocating call: a collection may come first; what it reads of the
\* freed objects is read after they are gone.
Allocate ==
  /\ Running
  /\ Current.i = "alloc"
  /\ \E collect \in BOOLEAN :
       LET kept == IF collect THEN heap.live \cap ReachableIn(heap) ELSE heap.live
       IN  /\ heap' = [heap EXCEPT !.live = kept \cup {Current.obj}]
           /\ call' = [Proceed(call) EXCEPT
                         !.freed = @ \cup (Current.uses \ kept),
                         !.collections = IF collect THEN @ + 1 ELSE @]
  /\ UNCHANGED <<error, iterA, iterB, halted>>

PushTempRef ==
  /\ Running
  /\ Current.i = "push"
  /\ heap' = [heap EXCEPT !.temps = Append(@, Current.obj)]
  /\ call' = Proceed(call)
  /\ UNCHANGED <<error, iterA, iterB, halted>>

PopTempRef ==
  /\ Running
  /\ Current.i = "pop"
  /\ Len(heap.temps) > 0
  /\ heap' = [heap EXCEPT !.temps = SubSeq(@, 1, Len(@) - 1)]
  /\ call' = Proceed(call)
  /\ UNCHANGED <<error, iterA, iterB, halted>>

Touch ==
  /\ Running
  /\ Current.i \in {"store", "link", "read"}
  /\ heap' = [heap EXCEPT
                !.roots = IF Current.i = "store" THEN @ \cup {Current.obj} ELSE @,
                !.edges = IF Current.i = "link"
                          THEN @ \cup {<<Current.obj, Current.to>>} ELSE @]
  /\ call' = [Proceed(call) EXCEPT !.freed = @ \cup ({Current.obj} \ heap.live)]
  /\ UNCHANGED <<error, iterA, iterB, halted>>

Stop ==
  /\ Running
  /\ Current.i = "stop"
  /\ call' = [call EXCEPT !.status = "abort"]
  /\ halted' = TRUE
  /\ UNCHANGED <<heap, error, iterA, iterB>>

InitRoots ==
  /\ heap = [live |-> {"arg", "caller"}, edges |-> {}, roots |-> {"arg"},
             temps |-> <<>>]
  /\ error = NoError
  /\ call = [op |-> "none", steps |-> <<>>, pc |-> 1, entry |-> 0, status |-> "none",
             freed |-> {}, collections |-> 0]
  /\ iterA = NoIter
  /\ iterB = NoIter
  /\ halted = FALSE

NextRoots == Begin \/ Allocate \/ PushTempRef \/ PopTempRef \/ Touch \/ Stop

SpecRoots == InitRoots /\ [][NextRoots]_vars

(***************************************************************************)
(* Properties of the iteration protocol.                                   *)
(***************************************************************************)
\* The iterator after k calls that had a next value, for the kinds that count
\* their steps.
StateAfter(k) == IF k = 0 THEN VAR_NULL ELSE VAR_NUM(DInt(k))

\* The i-th value of Range(from, to): from + (i - 1) when from <= to, else
\* from - (i - 1).
RangeValue(from, to, i) ==
  IF dLessEq(from, to) THEN dAdd(from, DInt(i - 1)) ELSE dSub(from, DInt(i - 1))

RangeIterationOK(it) ==
  IsRange(it.seq) =>
    LET from == heap[it.seq.ref].from
        to == heap[it.seq.ref].to
        k == Len(it.yielded)
        five == DInt(5)
    IN  /\ it.last \in {"none", "next", "stop"}
        /\ \A i \in 1..k :
             /\ it.yielded[i] = VAR_NUM(RangeValue(from, to, i))
             /\ ~dEq(it.yielded[i].num, to)
        /\ it.iterator = StateAfter(k)
        \* it stops only where the next value would be [to]
        /\ it.last = "stop" => dEq(RangeValue(from, to, k + 1), to)
        \* [to] a whole number of steps away: every value lies before [to]
        /\ dSub(to, from).d = 1 =>
             \A i \in 1..k : IF dLessEq(from, to) THEN dLess(it.yielded[i].num, to)
                             ELSE dGreater(it.yielded[i].num, to)
        /\ (from = five /\ to = five) => k = 0 /\ it.last \in {"none", "stop"}
        /\ (from = five /\ to = DInt(1)) =>
             /\ k <= 4
             /\ it.yielded = [i \in 1..k |-> VAR_NUM(DInt(6 - i))]
             /\ it.last = "stop" => k = 4

\* C3: iterating a Range(from, to) from Null yields from, from+1, ... when
\* from <= to, else from, from-1, ...; [to] is never yielded, the iteration
\* stops only at [to] (with [to] a whole number of steps away every value lies
\* before it), Range(5,5) yields nothing and Range(5,1) yields exactly 5,4,3,2.
C3_RangeIteration == RangeIterationOK(iterA) /\ RangeIterationOK(iterB)

\* Range(5,1) iterated to its end.
C3_Witness ==
  /\ IsRange(iterA.seq)
  /\ heap["C"].from = DInt(5)
  /\ heap["C"].to = DInt(1)
  /\ iterA.last = "stop"
  /\ Len(iterA.yielded) = 4

\* The values a List or a String yields, in order.
ElementsOf(seq) ==
  IF IsList(seq) THEN heap[seq.ref].elements
  ELSE [i \in 1..Len(seq.data) |-> newStringLength(<<seq.data[i]>>)]

ListIterationOK(it) ==
  (IsList(it.seq) \/ IsString(it.seq)) =>
    LET elems == ElementsOf(it.seq)
        k == Len(it.yielded)
    IN  /\ it.last \in {"none", "next", "stop"}
        /\ k <= Len(elems)
        /\ \A i \in 1..k : it.yielded[i] = elems[i]
        /\ it.iterator = StateAfter(k)
        /\ it.value = IF k = 0 THEN VAR_NULL ELSE elems[k]
        /\ it.calls = IF it.last = "stop" THEN k + 1 ELSE k
        /\ it.last = "stop" => k = Len(elems)

\* C4: iterating a List of length N (a String of N bytes) from Null reports a
\* next value exactly N times, the i-th value being element i (byte i as a
\* 1-length String) and the state after it the Number i; the (N+1)-th call
\* reports no next value and leaves the state (and the value) unchanged.
C4_ListStringIteration == ListIterationOK(iterA) /\ ListIterationOK(iterB)

\* A List of MaxLen elements iterated to its end with N + 1 calls.
C4_Witness ==
  /\ IsList(iterB.seq)
  /\ Len(heap["C"].elements) = MaxLen
  /\ iterB.last = "stop"
  /\ iterB.calls = MaxLen + 1

\* The indexes of the occupied slots of a Map, ascending.
RECURSIVE OccupiedFrom(_, _)
OccupiedFrom(entries, i) ==
  IF i > Len(entries) THEN <<>>
  ELSE (IF IS_UNDEF(entries[i].key) THEN <<>> ELSE <<i>>)
         \o OccupiedFrom(entries, i + 1)

MapIterationOK(it) ==
  IsMap(it.seq) =>
    LET entries == heap[it.seq.ref].entries
        occupied == OccupiedFrom(entries, 1)
        k == Len(it.yielded)
    IN  /\ it.last \in {"none", "next", "stop"}
        /\ k <= Len(occupied)
        /\ \A i \in 1..k : it.yielded[i] = entries[occupied[i]].key
        /\ \A i \in 1..k : ~IS_UNDEF(it.yielded[i])
        \* the resume index is the slot after the one yielded last
        /\ it.iterator = IF k = 0 THEN VAR_NULL ELSE VAR_NUM(DInt(occupied[k]))
        /\ it.last = "stop" => k = Len(occupied)

\* C5: iterating an unmutated Map from Null yields the key of every occupied
\* slot exactly once, in ascending slot order, yields nothing for an empty or
\* tombstoned slot, and reports no next value once no occupied slot remains at
\* or after the resume index.
C5_MapIteration == MapIterationOK(iterA) /\ MapIterationOK(iterB)

\* A Map whose only occupied slot follows a tombstone and precedes an empty
\* slot, iterated to its end.
C5_Witness ==
  /\ IsMap(iterA.seq)
  /\ heap["C"].entries[1] = Tombstone
  /\ ~IS_UNDEF(heap["C"].entries[2].key)
  /\ heap["C"].entries[MapCap] = EmptySlot
  /\ iterA.last = "stop"
  /\ Len(iterA.yielded) = 1

\* The iteration [it] run alone for [n] more calls on the heap [h].
RECURSIVE SoloRun(_, _, _)
SoloRun(it, h, n) ==
  IF n = 0 \/ it.last \notin {"none", "next"} THEN it
  ELSE LET out == varIterate(h, it.seq, it.iterator, it.value)
       IN  SoloRun(Advance(it, out), out.heap, n - 1)

SameAsAlone(it) == it = SoloRun(NewIter(it.h0, it.seq), it.h0, it.calls)

\* C6: iterate never changes the container it is given, and each of two
\* iterations over the same container, their calls interleaved in any order,
\* has yielded what that iteration run alone yields in as many calls.
C6_IndependentIterations ==
  /\ heap = iterA.h0
  /\ heap = iterB.h0
  /\ SameAsAlone(iterA)
  /\ SameAsAlone(iterB)

\* Both iterations over one List are under way, at different positions.
C6_Witness ==
  /\ IsList(iterA.seq)
  /\ iterB.seq = iterA.seq
  /\ Len(iterA.yielded) = 2
  /\ Len(iterB.yielded) = 1
  /\ call.args = <<iterB.seq, VAR_NULL>>

(***************************************************************************)
(* Properties of the subscript protocol.                                   *)
(***************************************************************************)
IsSubscriptCall(c) == c.op \in {"getSubscript", "setSubscript"}

\* [key] is an integer (a Number without fraction, or a Bool as 0/1) in [0, n).
IsIndexIn(key, n) ==
  \/ IS_BOOL(key) /\ (IF key.b THEN 1 ELSE 0) < n
  \/ IS_NUM(key) /\ key.num.d = 1 /\ key.num.n \in 0..(n - 1)

IndexOf(key) == IF IS_BOOL(key) THEN (IF key.b THEN 1 ELSE 0) ELSE key.num.n

IsHashableKey(key) == ~IS_OBJ(key) \/ IsString(key)

\* The cases C1 names: a List with a key that is no index of it, a Map with a
\* non-hashable key, a write to a String (or a read with no index of it).
ErrorCase(c) ==
  LET on == c.args[1]
      key == c.args[2]
  IN  \/ IsList(on) /\ ~IsIndexIn(key, Len(c.pre[on.ref].elements))
      \/ IsMap(on) /\ ~IsHashableKey(key)
      \/ IsString(on) /\ (c.op = "setSubscript" \/ ~IsIndexIn(key, Len(on.data)))

\* C1: a getSubscript or setSubscript call that sets the error channel leaves
\* every object as it was before the call (elements, entries and lengths); and
\* the calls on a List with a non-integer or out-of-range key, on a Map with a
\* non-hashable key, and the writes to a String all set the error channel and
\* return.
C1_ErrorLeavesContainerUnchanged ==
  IsSubscriptCall(call) =>
    /\ call.err # NoError => heap = call.pre /\ error = call.err
    /\ ErrorCase(call) => call.err # NoError /\ call.status = "return"

\* A write to a non-empty List with a key that is no index of it has set the
\* error.
C1_Witness ==
  /\ call.op = "setSubscript"
  /\ IsList(call.args[1])
  /\ Len(call.pre["C"].elements) = MaxLen
  /\ call.args[2] = VAR_NUM(DInt(MaxLen))
  /\ call.err # NoError

C2_Case(h, on, key) ==
  \/ IsList(on) /\ IsIndexIn(key, Len(h[on.ref].elements))
  \/ IsMap(on) /\ IsHashableKey(key)

\* A setSubscript step on a List with a valid index or on a Map with a
\* hashable key returns without error, keeps every other object and the
\* container's identity and kind, and on a List replaces exactly that element.
C2_SetStep ==
  LET on == call'.args[1]
      key == call'.args[2]
  IN  (call'.op = "setSubscript" /\ C2_Case(heap, on, key)) =>
        /\ call'.status = "return"
        /\ call'.err = NoError
        /\ DOMAIN heap' = DOMAIN heap
        /\ \A r \in DOMAIN heap : r # on.ref => heap'[r] = heap[r]
        /\ heap'[on.ref].type = heap[on.ref].type
        /\ IsList(on) =>
             /\ Len(heap'[on.ref].elements) = Len(heap[on.ref].elements)
             /\ \A i \in 1..Len(heap[on.ref].elements) :
                  heap'[on.ref].elements[i] =
                    IF i = IndexOf(key) + 1 THEN call'.args[3]
                    ELSE heap[on.ref].elements[i]

\* A getSubscript step that follows such a setSubscript with the same
\* container and key returns the value stored, sets no error and changes
\* nothing.
C2_GetAfterSet ==
  (/\ call.op = "setSubscript"
   /\ C2_Case(call.pre, call.args[1], call.args[2])
   /\ call'.op = "getSubscript"
   /\ call'.args = <<call.args[1], call.args[2]>>) =>
    /\ call'.status = "return"
    /\ call'.ret = call.args[3]
    /\ call'.err = NoError
    /\ heap' = heap

\* C2: for a List and an integer index in [0,count), and for a Map and a
\* hashable key, setSubscript followed by getSubscript returns the value set
\* with no error; the container is the same object, and for a List every other
\* element and the count are unchanged.
C2_SetThenGet == [][C2_SetStep /\ C2_GetAfterSet]_vars

\* A read returned a value that only a setSubscript stores (no initial
\* container holds it).
C2_Witness ==
  /\ call.op = "getSubscript"
  /\ IsList(call.args[1]) \/ IsMap(call.args[1])
  /\ call.ret \in SetValues
  /\ call.err = NoError

(***************************************************************************)
(* Properties of the operators.                                            *)
(***************************************************************************)
IsNumericValue(v) == IS_NUM(v) \/ IS_BOOL(v)

\* The double a numeric value counts as: a Bool is 0 or 1.
NumberOf(v) == IF IS_BOOL(v) THEN (IF v.b THEN DInt(1) ELSE DInt(0)) ELSE v.num

\* The errors of the TypeMismatch class: a non-numeric right operand, and
\* unsupported operand types.
IsTypeMismatch(err) ==
  /\ err # NoError
  /\ err.fmt \in {"$ must be a numeric value.",
                  "Unsupported operand types for operator '$' $ and $"}

\* C8: greater-than and less-than on a pair with a non-numeric operand set a
\* TypeMismatch error and return false; on a numeric pair (Bool as 0/1) they
\* return the numeric comparison and set no error.
C8_ComparisonTypeMismatch ==
  call.op \in {"greater", "lesser"} =>
    LET v1 == call.args[1]
        v2 == call.args[2]
    IN  IF IsNumericValue(v1) /\ IsNumericValue(v2)
        THEN /\ call.status = "return"
             /\ call.err = NoError
             /\ call.ret = VAR_BOOL(IF call.op = "greater"
                                    THEN dLess(NumberOf(v2), NumberOf(v1))
                                    ELSE dLess(NumberOf(v1), NumberOf(v2)))
        ELSE /\ call.status = "return"
             /\ IsTypeMismatch(call.err)
             /\ call.ret = VAR_FALSE

IsArithmetic(c) == c.op \in {"add", "subtract", "multiply", "divide", "modulo"}

\* The pairs an arithmetic operator computes a result for.
IsSupportedPair(op, v1, v2) ==
  \/ IsNumericValue(v1) /\ IsNumericValue(v2)
  \/ op = "add" /\ IsString(v1) /\ IsString(v2)

\* C9: add, subtract, multiply, divide and modulo on a pair that is neither
\* numeric+numeric nor, for add, String+String set a TypeMismatch error,
\* return Null and change nothing else, whatever the kinds of the operands
\* (List+List for add and a String left operand for modulo included).
C9_ArithmeticTypeMismatch ==
  (IsArithmetic(call) /\ ~IsSupportedPair(call.op, call.args[1], call.args[2])) =>
    /\ call.status = "return"
    /\ IsTypeMismatch(call.err)
    /\ call.ret = VAR_NULL
    /\ heap = call.pre

(***************************************************************************)
(* Properties of the builtins.                                             *)
(***************************************************************************)
\* What the argument check does when it finds no String: two allocations
\* for the message, the error assigned, and failure reported.
FailedStringCheck ==
  <<"alloc", "push", "alloc", "error", "pop", "validateArgString:false">>

\* C7: str_lower, str_upper and str_strip called with an argument that is no
\* String: the argument check reports failure, the error is the positional
\* error for argument 1, and the builtin returns at once, having allocated
\* no result, read nothing from the argument as a String and not written the
\* return slot.
C7_NonStringArgumentReturnsEarly ==
  (call.op \in {"str_lower", "str_upper", "str_strip"} /\ ~IsString(call.args[1])) =>
    /\ call.status = "return"
    /\ call.err = stringFormat("Expected a string at argument @.",
                               <<toString(VAR_NUM(DInt(1)), FALSE)>>)
    /\ call.log = FailedStringCheck

\* Only Null and false are falsy.
IsFalsy(v) == IS_NULL(v) \/ v = VAR_FALSE

\* The String a value is shown as: a String is itself.
StringForm(v) == IF IsString(v) THEN v ELSE toString(v, FALSE)

\* C10: assert sets the error exactly when the argument count is not 1 or 2
\* or the first argument is falsy (Null or false); with a falsy condition
\* and a second argument of any kind the error is the assertion message
\* built from the string form of that argument.
C10_AssertSetsError ==
  call.op = "assert" =>
    LET argc == Len(call.args)
    IN  IF argc \notin {1, 2}
        THEN call.status = "return" /\ call.err = newString("Invalid argument count.")
        ELSE IF ~IsFalsy(call.args[1])
        THEN call.status = "return" /\ call.err = NoError
        ELSE IF argc = 2
        THEN /\ call.status = "return"
             /\ call.err = stringFormat("Assertion failed: '@'.",
                                        <<StringForm(call.args[2])>>)
        ELSE call.status = "return" /\ call.err # NoError

(***************************************************************************)
(* Ranges whose ends are not a whole number of steps apart.                *)
(***************************************************************************)
\* [x] lies before [to] for an iteration that set out from [from].
IsBefore(x, from, to) == IF dLessEq(from, to) THEN dLess(x, to) ELSE dGreater(x, to)

RangeStaysBefore(it) ==
  IsRange(it.seq) =>
    LET from == heap[it.seq.ref].from
        to == heap[it.seq.ref].to
    IN  \A i \in 1..Len(it.yielded) : IsBefore(it.yielded[i].num, from, to)

\* C15: iterating any Range(from, to) from the Null state, the ends a whole
\* number of steps apart or not, no yielded value lies at or beyond [to] in
\* the direction of travel (and so the iteration ends after finitely many
\* calls).
C15_RangeStopsBeforeTo == RangeStaysBefore(iterA) /\ RangeStaysBefore(iterB)

(***************************************************************************)
(* Properties of the argument getters.                                     *)
(***************************************************************************)
IsGetter(c) ==
  c.op \in {"pkGetArg", "pkGetArgNumber", "pkGetArgBool", "pkGetArgValue"}

\* C12: a getter called with an index outside 1..argc trips the assertion
\* on the index and reads no slot outside the argument window; an index in
\* 1..argc never trips that assertion.
C12_ArgIndexAsserted ==
  IsGetter(call) =>
    IF call.args.arg \in 1..Len(call.args.window)
    THEN call.log # <<"Invalid argument index.">>
    ELSE /\ call.status = "abort"
         /\ call.log = <<"Invalid argument index.">>

(***************************************************************************)
(* Properties of attribute writes.                                         *)
(***************************************************************************)
IsImmutableWrite(c) ==
  /\ c.op = "setAttrib"
  /\ IsString(c.args[1]) \/ IsList(c.args[1])

\* The error is of the AttributeImmutable kind.
IsAttributeImmutable(err) == err # NoError /\ err.fmt = "'$' attribute is immutable."

\* The error is of the AttributeNotFound kind.
IsAttributeNotFound(err) ==
  err # NoError /\ err.fmt = "'$' objects has no attribute named '$'"

\* C14 (as stated): setAttribute on a String or a List fails with an
\* AttributeImmutable error for every attribute name and changes nothing on
\* the receiver.
C14_AnyWriteImmutable ==
  IsImmutableWrite(call) =>
    /\ call.status = "return"
    /\ IsAttributeImmutable(call.err)
    /\ heap = call.pre

\* C14 (amended): setAttribute on a String or a List fails with an
\* AttributeImmutable error for the name `length` and with an
\* AttributeNotFound error for every other name; either way it changes
\* nothing on the receiver.
C14_LengthImmutableOthersNotFound ==
  IsImmutableWrite(call) =>
    /\ call.status = "return"
    /\ heap = call.pre
    /\ IF call.args[2].data = LengthName
       THEN call.err = AttribImmutable(LengthName)
       ELSE /\ IsAttributeNotFound(call.err)
            /\ call.err.args[2] = CData(call.args[2].data)

\* A List was written an attribute other than `length`.
C14_Witness ==
  /\ call.op = "setAttrib"
  /\ IsList(call.args[1])
  /\ call.args[2].data = <<"x">>
  /\ IsAttributeNotFound(call.err)
  /\ error = call.err

(***************************************************************************)
(* Properties of the module registry.                                      *)
(***************************************************************************)
\* The names registered in [h], one per occupied entry of core_libs.
RegisteredNames(h) ==
  LET es == h[CoreLibs].entries
  IN  [i \in {j \in 1..Len(es) : ~IS_UNDEF(es[j].key)} |-> es[i].key.data]

IsInjective(f) == \A i, j \in DOMAIN f : f[i] = f[j] => i = j

FunctionNamesOf(script) == [i \in 1..Len(script.functions) |-> script.functions[i].name]

ScriptsOf(h) == {r \in DOMAIN h : h[r].type = "OBJ_SCRIPT"}

NoNameTwice(h) ==
  /\ IsInjective(RegisteredNames(h))
  /\ \A r \in ScriptsOf(h) :
       /\ IsInjective(FunctionNamesOf(h[r]))
       /\ \A i \in 1..Len(h[r].functions), j \in 1..Len(h[r].global_names) :
            h[r].functions[i].name # h[r].global_names[j]

\* The call [c] asks for a name that is taken.
IsCollision(c) ==
  \/ /\ c.op = "pkNewModule"
     /\ \E i \in DOMAIN RegisteredNames(c.pre) : RegisteredNames(c.pre)[i] = c.args[1]
  \/ /\ c.op = "pkModuleAddFunction"
     /\ c.args[1] # NullHandle
     /\ IS_OBJ(c.args[1].value)
     /\ c.args[1].value.type = "OBJ_SCRIPT"
     /\ LET scr == c.pre[c.args[1].value.ref]
        IN  \/ \E i \in 1..Len(scr.functions) : scr.functions[i].name = c.args[2]
            \/ \E j \in 1..Len(scr.global_names) : scr.global_names[j] = c.args[2]

\* C11: after any sequence of createModule and addFunction calls no two
\* registered modules have the same name and no module has two functions,
\* or a function and a global, with the same name; a call that would make
\* such a collision stops the process, adds nothing to the registry or the
\* module and sets no error.
C11_NoNameCollision ==
  /\ NoNameTwice(heap)
  /\ IsCollision(call) =>
       /\ call.status = "abort"
       /\ halted
       /\ heap = call.pre
       /\ call.err = NoError
       /\ error = NoError

\* A function was asked for under the name of a global of the script, after
\* a module was created.
C11_Witness ==
  /\ IsCollision(call)
  /\ call.op = "pkModuleAddFunction"
  /\ call.args[2] = GcName
  /\ heap[call.args[1].value.ref].global_names = <<GcName>>
  /\ Len(heap[CoreLibs].entries) = 2
  /\ halted

(***************************************************************************)
(* Properties of the temporary roots.                                      *)
(***************************************************************************)
\* The objects the steps from the current one on still read or store.
NeededFrom(c) ==
  UNION {c.steps[k].uses \cup {c.steps[k].obj, c.steps[k].to} : k \in c.pc..Len(c.steps)}

\* C13: an object an operation allocated and still needs is reachable from
\* a root (pinned as a temporary root while only a local holds it) at every
\* later allocating call, so no collection frees an object the operation
\* uses afterwards; the pins are released one for one on every path, the
\* temporary roots at the end being those at the start.
C13_LocalsPinnedAcrossAllocations ==
  /\ call.freed = {}
  /\ (call.status = "running" /\ Current.i = "alloc") =>
       (NeededFrom(call) \cap heap.live) \subseteq ReachableIn(heap)
  /\ (call.status = "running" /\ Current.i = "pop") => Len(heap.temps) > call.entry
  /\ call.status \in {"return", "abort"} => heap.temps = EntryTemps(call.entry)

\* A failed assertion with a message that is no String ran to its end with
\* a collection at each of its two allocations, under a pin of the caller.
C13_Witness ==
  /\ call.op = "coreAssert"
  /\ call.status = "return"
  /\ call.collections = 2
  /\ call.entry = 1
  /\ {"msg", "error"} \subseteq heap.live

====
